---- MODULE Spec2Model ----
(***************************************************************************)
(* A model of password_cracker.py: the session run by main() (responsible  *)
(* use confirmation, hash algorithm, target hash, wordlist, crack_password)*)
(* and the retry loop of the __main__ block.                               *)
(*                                                                         *)
(* Strings are sequences of one-character strings.  The three hashlib      *)
(* digests are library code; they are modelled by a small deterministic    *)
(* checksum rendered as lowercase hex of the algorithm's digest length     *)
(* (so candidates may collide, and upper-casing a digest changes it).      *)
(***************************************************************************)
EXTENDS Integers, Sequences, FiniteSets, TLC

VARIABLES
    RICH_AVAILABLE,    \* module flag set by the import of rich (lines 48-59)
    args_target,       \* args.target: None or the raw --target string
    pc,                \* position of the process
    hash_choice,       \* key of HASH_ALGORITHMS selected in this session
    target_hash,       \* main's target_hash
    hash_type,         \* get_target_hash's detected hash_type
    wordlist,          \* the file at wordlist_path: [state, lines]
    total_words,       \* crack_password's total_words
    pos,               \* lines of the file consumed by read_wordlist
    attempt_count,     \* crack_password's attempt_count
    password,          \* the candidate last yielded by read_wordlist
    hashed_password,   \* its digest
    cracked_password,  \* crack_password's cracked_password
    reads,             \* how often crack_password has read each line of the file
    console            \* kind of the last message printed

vars == <<RICH_AVAILABLE, args_target, pc,
          hash_choice, target_hash, hash_type, wordlist, total_words, pos,
          attempt_count, password, hashed_password, cracked_password, reads,
          console>>

-----------------------------------------------------------------------------
(* Bounds and input sets *)

MaxLines == 3

\* Python's None, for the string-valued variables
None == <<"None">>

\* lines of a wordlist file (without the line terminator)
Lines == { <<>>, <<" ">>, <<"a">>, <<" ", "a">>, <<"b">> }

RECURSIVE SeqsUpTo(_, _)
SeqsUpTo(S, n) ==
    IF n = 0 THEN { <<>> }
    ELSE LET shorter == SeqsUpTo(S, n - 1)
         IN shorter \cup { Append(s, x) : s \in { t \in shorter : Len(t) = n - 1 }, x \in S }

-----------------------------------------------------------------------------
(* String functions *)

IsSpace(c) == c \in {" ", "\t"}

RECURSIVE LStrip(_)
LStrip(s) == IF s # <<>> /\ IsSpace(Head(s)) THEN LStrip(Tail(s)) ELSE s

RECURSIVE RStrip(_)
RStrip(s) ==
    IF s # <<>> /\ IsSpace(s[Len(s)]) THEN RStrip(SubSeq(s, 1, Len(s) - 1)) ELSE s

\* str.strip()
Strip(s) == RStrip(LStrip(s))

\* ''.join(s.split())
RECURSIVE RemoveWhitespace(_)
RemoveWhitespace(s) ==
    IF s = <<>> THEN <<>>
    ELSE IF IsSpace(Head(s)) THEN RemoveWhitespace(Tail(s))
    ELSE <<Head(s)>> \o RemoveWhitespace(Tail(s))

LowerChar(c) ==
    CASE c = "A" -> "a" [] c = "B" -> "b" [] c = "C" -> "c" [] c = "D" -> "d"
      [] c = "E" -> "e" [] c = "F" -> "f" [] c = "G" -> "g" [] c = "X" -> "x"
      [] OTHER -> c

UpperChar(c) ==
    CASE c = "a" -> "A" [] c = "b" -> "B" [] c = "c" -> "C" [] c = "d" -> "D"
      [] c = "e" -> "E" [] c = "f" -> "F" [] c = "g" -> "G" [] c = "x" -> "X"
      [] OTHER -> c

\* str.lower()
Lower(s) == [i \in 1..Len(s) |-> LowerChar(s[i])]

\* str.upper(), used to build the inputs
Upper(s) == [i \in 1..Len(s) |-> UpperChar(s[i])]

HexDigits == <<"0", "1", "2", "3", "4", "5", "6", "7", "8", "9",
               "a", "b", "c", "d", "e", "f">>

IsHexDigit(c) == \E i \in 1..16 : HexDigits[i] = LowerChar(c)

\* every character is one of 0-9, a-f, A-F
IsHex(s) == \A i \in 1..Len(s) : IsHexDigit(s[i])

\* int(s, 16) does not raise ValueError: optional surrounding whitespace, an
\* optional sign, an optional 0x/0X prefix (which one underscore may follow),
\* then hex digits with single underscores between digits
IntBase16Accepts(s) ==
    LET s1 == Strip(s)
        s2 == IF s1 # <<>> /\ Head(s1) \in {"+", "-"} THEN Tail(s1) ELSE s1
        prefixed == Len(s2) >= 2 /\ s2[1] = "0" /\ s2[2] \in {"x", "X"}
        s3 == IF prefixed THEN SubSeq(s2, 3, Len(s2)) ELSE s2
        s4 == IF prefixed /\ s3 # <<>> /\ Head(s3) = "_" THEN Tail(s3) ELSE s3
    IN  /\ s4 # <<>>
        /\ \A i \in 1..Len(s4) :
              \/ IsHexDigit(s4[i])
              \/ s4[i] = "_" /\ i > 1 /\ i < Len(s4) /\ s4[i - 1] # "_"

\* Python truthiness of an optional string
Truthy(s) == s # None /\ s # <<>>

-----------------------------------------------------------------------------
(* Hash algorithms *)

MD5HexLen == 32
SHA1HexLen == 40
SHA256HexLen == 64

Choices == {"1", "2", "3"}

HASH_ALGORITHMS ==
    [c \in Choices |->
        CASE c = "1" -> [name |-> "MD5", hexlen |-> MD5HexLen, seed |-> 7]
          [] c = "2" -> [name |-> "SHA-1", hexlen |-> SHA1HexLen, seed |-> 11]
          [] c = "3" -> [name |-> "SHA-256", hexlen |-> SHA256HexLen, seed |-> 13]]

\* password.encode('utf-8') for the characters of the model
Ord(c) == CASE c = "a" -> 97 [] c = "b" -> 98 [] c = " " -> 32 [] OTHER -> 9

RECURSIVE Checksum(_, _)
Checksum(s, h) ==
    IF s = <<>> THEN h ELSE Checksum(Tail(s), (h * 31 + Ord(Head(s))) % 256)

\* hash_func(bytes).hexdigest(): lowercase hex of the algorithm's length
HexDigest(c, s) ==
    LET h == Checksum(s, HASH_ALGORITHMS[c].seed)
        k == 2 * (h \div 16) + 1
    IN  [i \in 1..HASH_ALGORITHMS[c].hexlen |-> HexDigits[((h + i * k) % 16) + 1]]

\* a hash_password that ignores the selected algorithm
md5_password(pw, c) == HexDigest("1", pw)

hash_password(pw, c) == HexDigest(c, pw)

-----------------------------------------------------------------------------
(* Inputs *)

\* the passwords whose digests are offered as targets
SourcePassword == <<"a">>
PaddedPassword == <<" ", "a">>

ReplaceAt(s, i, c) == [j \in 1..Len(s) |-> IF j = i THEN c ELSE s[j]]

\* what the user may type at the prompt or pass as --target
TargetInputs ==
    LET d == HexDigest("1", SourcePassword)
    IN  { HexDigest(c, p) : c \in Choices, p \in {SourcePassword, PaddedPassword} }
        \cup { Upper(d),                                   \* upper-case hex
               <<d[1], " ">> \o Tail(d),                   \* pasted with a blank inside
               ReplaceAt(ReplaceAt(d, 1, "0"), 2, "x"),    \* 0x prefix, 32 characters
               ReplaceAt(d, 3, "g"),                       \* not hexadecimal
               <<"a", "b">>,                               \* hexadecimal, no digest length
               <<>>,
               <<" ">> }

\* the file a path may name
FileStates ==
    { [state |-> st, lines |-> <<>>] : st \in {"missing", "directory", "unreadable"} }
    \cup { [state |-> "ok", lines |-> ls] : ls \in SeqsUpTo(Lines, MaxLines) }

Answers == {"y", "n", "other"}

-----------------------------------------------------------------------------
(* The program *)

args == <<RICH_AVAILABLE, args_target>>

\* the locals of main(), get_target_hash() and crack_password()
locals == <<hash_choice, target_hash, hash_type, wordlist, total_words, pos,
            attempt_count, password, hashed_password, cracked_password, reads>>

\* the locals before the session has set them
SessionReset ==
    /\ hash_choice' = "0"
    /\ target_hash' = None
    /\ hash_type' = ""
    /\ wordlist' = [state |-> "missing", lines |-> <<>>]
    /\ total_words' = 0
    /\ pos' = 0
    /\ attempt_count' = 0
    /\ password' = None
    /\ hashed_password' = None
    /\ cracked_password' = None
    /\ reads' = <<>>

\* an exception (SystemExit, KeyboardInterrupt, ZeroDivisionError) or a return
\* leaves main(): the message is printed and the frames of main() and
\* crack_password() are gone, and their locals with them
Leave(msg, to) ==
    /\ console' = msg
    /\ pc' = to
    /\ SessionReset

Init ==
    /\ RICH_AVAILABLE \in BOOLEAN
    /\ args_target \in {None} \cup TargetInputs
    /\ pc = "main"
    /\ hash_choice = "0"
    /\ target_hash = None
    /\ hash_type = ""
    /\ wordlist = [state |-> "missing", lines |-> <<>>]
    /\ total_words = 0
    /\ pos = 0
    /\ attempt_count = 0
    /\ password = None
    /\ hashed_password = None
    /\ cracked_password = None
    /\ reads = <<>>
    /\ console = ""

InMain == pc \in {"confirm", "hash", "target", "wordlist", "count", "scan", "report"}

Running == InMain \/ pc \in {"main", "retry"}

\* the start of main(): the banner
StartMain ==
    /\ pc = "main"
    /\ console' = "banner"
    /\ pc' = "confirm"
    /\ UNCHANGED <<args, locals>>

\* get_user_confirmation() and its use in main(); sys.exit(0) when declined
GetUserConfirmation(response) ==
    /\ pc = "confirm"
    /\ \/ /\ response = "y"
          /\ pc' = "hash"
          /\ UNCHANGED <<console, locals>>
       \/ /\ response = "n"
          /\ Leave("declined", "exit0")
       \/ /\ response = "other"
          /\ console' = "please_enter_y_or_n"
          /\ UNCHANGED <<pc, locals>>
    /\ UNCHANGED args

\* main(): the hash algorithm, HASH_ALGORITHMS[choice], where choice is
\* str(args.hash_type) when --hash-type was given (argparse admits 1, 2, 3)
\* and the answer to get_hash_algorithm() otherwise
SelectHashAlgorithm(choice) ==
    /\ pc = "hash"
    /\ hash_choice' = choice
    /\ console' = "selected"
    /\ pc' = "target"
    /\ UNCHANGED <<args, target_hash, hash_type, wordlist, total_words, pos,
                   attempt_count, password, hashed_password, cracked_password, reads>>

\* a detection that also looks at the characters
DetectHashTypeOfHex(t) ==
    IF ~IsHex(t) THEN "Unknown"
    ELSE IF Len(t) = MD5HexLen THEN "MD5"
    ELSE IF Len(t) = SHA1HexLen THEN "SHA-1"
    ELSE IF Len(t) = SHA256HexLen THEN "SHA-256"
    ELSE "Unknown"

\* the length-based feedback of get_target_hash()
DetectHashType(t) ==
    IF Len(t) = MD5HexLen THEN "MD5"
    ELSE IF Len(t) = SHA1HexLen THEN "SHA-1"
    ELSE IF Len(t) = SHA256HexLen THEN "SHA-256"
    ELSE "Unknown"

\* the validation of get_target_hash(): int(target_hash, 16) does not raise
ValidTarget(t) == IntBase16Accepts(t)

\* what get_target_hash() returns for an accepted input
AcceptedTarget(t) == Lower(t)

\* what main() takes from --target
ArgsTarget(t) == t

\* main(): target_hash = args.target if args.target else get_target_hash(),
\* here the first branch
TargetFromArgs ==
    /\ pc = "target"
    /\ Truthy(args_target)
    /\ target_hash' = ArgsTarget(args_target)
    /\ pc' = "wordlist"
    /\ UNCHANGED <<args, hash_choice, hash_type, wordlist, total_words, pos,
                   attempt_count, password, hashed_password, cracked_password, reads,
                   console>>

\* one round of the prompt loop of get_target_hash()
GetTargetHash(raw) ==
    /\ pc = "target"
    /\ ~Truthy(args_target)
    /\ LET stripped == Strip(raw)
           t == RemoveWhitespace(stripped)
       IN  IF stripped = <<>>
           THEN /\ console' = "hash_empty"
                /\ UNCHANGED <<pc, target_hash, hash_type>>
           ELSE IF ValidTarget(t)
           THEN /\ hash_type' = DetectHashType(t)
                /\ console' = "hash_accepted"
                /\ target_hash' = AcceptedTarget(t)
                /\ pc' = "wordlist"
           ELSE /\ console' = "invalid_hash_format"
                /\ UNCHANGED <<pc, target_hash, hash_type>>
    /\ UNCHANGED <<args, hash_choice, wordlist, total_words, pos,
                   attempt_count, password, hashed_password, cracked_password, reads>>

\* main(): the wordlist.  from_args: --wordlist was given and the path is
\* checked only for existence (lines 558-566); otherwise get_wordlist_path()
\* checks existence, regular file and readability.  sys.exit(1) on failure
ResolveWordlist(f, from_args) ==
    /\ pc = "wordlist"
    /\ IF f.state = "missing"
       THEN Leave("wordlist_not_found", "exit1")
       ELSE IF ~from_args /\ f.state = "directory"
       THEN Leave("not_a_valid_file", "exit1")
       ELSE IF ~from_args /\ f.state = "unreadable"
       THEN Leave("error_reading_wordlist_file", "exit1")
       ELSE /\ wordlist' = f
            /\ console' = IF from_args THEN console ELSE "wordlist_loaded"
            /\ pc' = "count"
            /\ UNCHANGED <<hash_choice, target_hash, hash_type, total_words, pos,
                           attempt_count, password, hashed_password, cracked_password,
                           reads>>
    /\ UNCHANGED args

\* count_wordlist_lines(): every line counts, blank or not; 0 on IOError
count_wordlist_lines(f) == IF f.state = "ok" THEN Len(f.lines) ELSE 0

\* the reads of count_wordlist_lines(): every line of the file, once
CountReads(lines) == [i \in 1..Len(lines) |-> 1]

\* crack_password() up to the loop: the count, the return of None for an
\* empty or unreadable wordlist, and the initialisation of the counters
CountWordlist ==
    /\ pc = "count"
    /\ LET n == count_wordlist_lines(wordlist)
       IN  IF n = 0
           THEN Leave("wordlist_empty_or_unreadable", "retry")
           ELSE /\ total_words' = n
                /\ cracked_password' = None
                /\ attempt_count' = 0
                /\ console' = "counting"
                /\ pc' = "scan"
                /\ reads' = CountReads(wordlist.lines)
                /\ UNCHANGED <<hash_choice, target_hash, hash_type, wordlist, pos,
                               password, hashed_password>>
    /\ UNCHANGED args

\* a generator that yields every line, blank or not
NextLine(lines, p) == IF p < Len(lines) THEN p + 1 ELSE 0

\* a generator that runs ahead to the last candidate
LastCandidate(lines, p) ==
    LET rest == { i \in (p + 1)..Len(lines) : Strip(lines[i]) # <<>> }
    IN  IF rest = {} THEN 0 ELSE CHOOSE i \in rest : \A j \in rest : j <= i

\* read_wordlist(): the index of the next line whose stripped text is not
\* empty, after the p lines consumed so far; 0 when there is none
NextCandidate(lines, p) ==
    LET rest == { i \in (p + 1)..Len(lines) : Strip(lines[i]) # <<>> }
    IN  IF rest = {} THEN 0 ELSE CHOOSE i \in rest : \A j \in rest : i <= j

\* a comparison of the lengths only
MatchesLength(digest, target) == Len(digest) = Len(target)

\* a generator that starts over from the first line at every candidate
RescanReads(r, from, to) == [i \in 1..Len(r) |-> IF i <= to THEN r[i] + 1 ELSE r[i]]

\* the reads of read_wordlist() when it advances from line `from` to line
\* `to`: each line in between, once
ScanReads(r, from, to) ==
    [i \in 1..Len(r) |-> IF from < i /\ i <= to THEN r[i] + 1 ELSE r[i]]

\* the comparison of crack_password()
Matches(digest, target) == digest = target

\* a generator that swallows the IOError and simply ends
ReadErrorSwallowed ==
    /\ pc' = "report"
    /\ UNCHANGED <<locals, console>>

\* the IOError handler of read_wordlist(): the message and sys.exit(1)
ReadError == Leave("error_reading_wordlist", "exit1")

\* the interval of the verbose progress line
VerboseEvery == 1000

\* what a candidate that does not match leaves on the console: the verbose
\* line every VerboseEvery attempts, the progress bar with rich, else nothing
ProgressOutput(verbose, attempts) ==
    IF verbose /\ attempts % VerboseEvery = 0 THEN "attempted_words"
    ELSE IF RICH_AVAILABLE THEN "progress"
    ELSE console

\* one iteration of the loop of crack_password(): the generator advances to
\* the next candidate, which is counted, hashed and compared.  elapsed_zero:
\* time.time() still reads start_time at the progress update; verbose:
\* the --verbose flag
ScanStep(elapsed_zero, verbose) ==
    /\ pc = "scan"
    /\ IF wordlist.state # "ok"
       THEN \* IOError when read_wordlist opens or reads the file
            ReadError
       ELSE LET i == NextCandidate(wordlist.lines, pos)
            IN  IF i = 0
                THEN \* the generator is exhausted: the loop ends
                     /\ pos' = Len(wordlist.lines)
                     /\ reads' = ScanReads(reads, pos, Len(wordlist.lines))
                     /\ pc' = "report"
                     /\ UNCHANGED <<attempt_count, password, hashed_password,
                                    cracked_password, console>>
                     /\ UNCHANGED <<hash_choice, target_hash, hash_type, wordlist,
                                    total_words>>
                ELSE LET word == Strip(wordlist.lines[i])
                         digest == hash_password(word, hash_choice)
                     IN  IF Matches(digest, target_hash)
                         THEN /\ pos' = i
                              /\ reads' = ScanReads(reads, pos, i)
                              /\ password' = word
                              /\ attempt_count' = attempt_count + 1
                              /\ hashed_password' = digest
                              /\ cracked_password' = word
                              /\ pc' = "report"
                              /\ UNCHANGED <<console, hash_choice, target_hash,
                                             hash_type, wordlist, total_words>>
                         ELSE IF RICH_AVAILABLE /\ elapsed_zero
                         THEN \* attempt_count / (time.time() - start_time)
                              Leave("ZeroDivisionError", "crashed")
                         ELSE /\ pos' = i
                              /\ reads' = ScanReads(reads, pos, i)
                              /\ password' = word
                              /\ attempt_count' = attempt_count + 1
                              /\ hashed_password' = digest
                              /\ console' = ProgressOutput(verbose, attempt_count + 1)
                              /\ pc' = "scan"
                              /\ UNCHANGED <<cracked_password, hash_choice, target_hash,
                                             hash_type, wordlist, total_words>>
    /\ UNCHANGED args

\* the result panel of crack_password(), and the return to the __main__ loop
Report ==
    /\ pc = "report"
    /\ Leave(IF Truthy(cracked_password) THEN "password_cracked" ELSE "password_not_found",
             "retry")
    /\ UNCHANGED args

\* the retry question of the __main__ loop
Retry(answer) ==
    /\ pc = "retry"
    /\ \/ /\ answer = "n"
          /\ console' = "exiting"
          /\ pc' = "finished"
       \/ /\ answer = "y"
          /\ pc' = "main"
          /\ UNCHANGED console
       \/ /\ answer = "other"
          /\ console' = "invalid_input"
          /\ pc' = "main"
    /\ UNCHANGED <<args, locals>>

\* KeyboardInterrupt, caught by the handler of the __main__ block
Interrupt ==
    /\ Running
    /\ Leave("interrupted", "interrupted")
    /\ UNCHANGED args

\* the environment: the wordlist file stops being readable
SourceFails ==
    /\ pc \in {"count", "scan"}
    /\ wordlist.state = "ok"
    /\ wordlist' = [wordlist EXCEPT !.state = "unreadable"]
    /\ UNCHANGED <<args, pc, hash_choice, target_hash, hash_type, total_words, pos,
                   attempt_count, password, hashed_password, cracked_password, reads,
                   console>>

Next ==
    \/ StartMain
    \/ \E r \in Answers : GetUserConfirmation(r)
    \/ \E c \in Choices : SelectHashAlgorithm(c)
    \/ TargetFromArgs
    \/ pc = "target" /\ \E raw \in TargetInputs : GetTargetHash(raw)
    \/ pc = "wordlist" /\ \E f \in FileStates, from_args \in BOOLEAN : ResolveWordlist(f, from_args)
    \/ CountWordlist
    \/ \E z \in BOOLEAN, verbose \in BOOLEAN : ScanStep(z, verbose)
    \/ Report
    \/ \E a \in Answers : Retry(a)
    \/ Interrupt
    \/ SourceFails

Spec == Init /\ [][Next]_vars

-----------------------------------------------------------------------------
(* Properties *)

Blank == {" ", "\t"}

\* the line has no character other than blanks
IsBlankLine(line) == \A i \in 1..Len(line) : line[i] \in Blank

\* the line without its leading and trailing blanks
Trimmed(line) ==
    LET inked == { i \in 1..Len(line) : line[i] \notin Blank }
    IN  IF inked = {} THEN <<>>
        ELSE SubSeq(line, CHOOSE i \in inked : \A j \in inked : i <= j,
                          CHOOSE i \in inked : \A j \in inked : j <= i)

\* the non-blank lines among the first n lines of the wordlist
NonBlankUpTo(n) == { i \in 1..n : ~IsBlankLine(wordlist.lines[i]) }

\* the lines of the wordlist whose candidate hashes to the target
Hits ==
    { i \in NonBlankUpTo(Len(wordlist.lines)) :
        HexDigest(hash_choice, Trimmed(wordlist.lines[i])) = target_hash }

\* C1: first match wins.  While the scan runs, no line consumed so far hashes
\* to the target; when the loop has ended and some candidate hashes to the
\* target, the password is the candidate of the first such line, the attempt
\* count is that line's position among the non-blank lines, and the read
\* position and the last hashed candidate are that line's.
C1_FirstMatchWins ==
    /\ pc = "scan" => Hits \cap 1..pos = {}
    /\ (pc = "report" /\ Hits # {}) =>
          \E m \in Hits :
              /\ \A j \in Hits : m <= j
              /\ cracked_password = Trimmed(wordlist.lines[m])
              /\ attempt_count = Cardinality(NonBlankUpTo(m))
              /\ pos = m
              /\ password = cracked_password

C1_Witness ==
    /\ pc = "report"
    /\ Cardinality(Hits) >= 2
    /\ attempt_count = 2
    /\ pos < Len(wordlist.lines)

\* C2: when the loop has ended and no candidate of the wordlist hashes to the
\* target, every line has been consumed, no password is set (crack_password
\* returns None) and the attempt count is the number of non-blank lines.
C2_Exhausted ==
    (pc = "report" /\ Hits = {}) =>
        /\ cracked_password = None
        /\ pos = Len(wordlist.lines)
        /\ attempt_count = Cardinality(NonBlankUpTo(Len(wordlist.lines)))

C2_Witness ==
    /\ pc = "report"
    /\ Hits = {}
    /\ attempt_count = 2
    /\ Len(wordlist.lines) = 3

\* the wordlist is the single line P and the target is the digest of P under
\* the selected algorithm
RoundTripOf(P) ==
    /\ pc = "report"
    /\ wordlist.lines = <<P>>
    /\ target_hash = HexDigest(hash_choice, P)

\* C3 as stated: for any password P, the round trip finds P in one attempt.
C3_RoundTripAnyPassword ==
    \A P \in Lines :
        RoundTripOf(P) => cracked_password = P /\ attempt_count = 1

\* C3 as amended: for a password P that is not blank and has no leading or
\* trailing blank, and every algorithm, the crack over the wordlist whose only
\* line is P with the digest of P as target finds P in one attempt.
C3_RoundTrip ==
    \A P \in Lines :
        (RoundTripOf(P) /\ ~IsBlankLine(P) /\ P[1] \notin Blank /\ P[Len(P)] \notin Blank)
            => cracked_password = P /\ attempt_count = 1

C3_Witness ==
    /\ pc = "report"
    /\ hash_choice = "3"
    /\ wordlist.lines = <<SourcePassword>>
    /\ target_hash = HexDigest("3", SourcePassword)
    /\ cracked_password = SourcePassword

\* C4: during and after the scan the attempt count is the number of non-blank
\* lines consumed so far, and the candidate passed to hash_password is never
\* empty or blank.
C4_BlankLinesNeverAttempts ==
    pc \in {"scan", "report"} =>
        /\ attempt_count = Cardinality(NonBlankUpTo(pos))
        /\ password # None => (password # <<>> /\ ~IsBlankLine(password))

C4_Witness ==
    /\ pc = "scan"
    /\ pos = 3
    /\ attempt_count = 1
    /\ IsBlankLine(wordlist.lines[1])
    /\ wordlist.lines[2] = <<>>

\* C5: a target with a character outside 0-9, a-f, A-F never reaches the scan
\* loop.
C5_InvalidHexNeverScanned ==
    pc \in {"count", "scan", "report"} => IsHex(target_hash)

\* C6: resolving and counting an empty, missing or unreadable word source
\* neither ends the process nor enters the scan loop: the run returns to the
\* retry question with the empty-wordlist message.
C6_EmptySourceRecoverable ==
    [][(pc \in {"wordlist", "count"}) =>
          ((pc' \notin {"exit1", "crashed"}) /\
           (pc' = "scan" => NonBlankUpTo(Len(wordlist.lines)) # {}))]_vars

\* C7: an interrupt during the scan ends the run with the not-found report.
C7_InterruptGivesPartialResult ==
    [][(pc = "scan" /\ pc' = "interrupted") => console' = "password_not_found"]_vars

\* C8: the detected hash type of an accepted target is decided by its length
\* alone: 32 gives MD5, 40 gives SHA-1, 64 gives SHA-256, anything else
\* Unknown; and accepting a target leaves the selected algorithm unchanged.
C8_DetectionByLength ==
    /\ [](hash_type # "" =>
            /\ Len(target_hash) = 32 => hash_type = "MD5"
            /\ Len(target_hash) = 40 => hash_type = "SHA-1"
            /\ Len(target_hash) = 64 => hash_type = "SHA-256"
            /\ Len(target_hash) \notin {32, 40, 64} => hash_type = "Unknown")
    /\ [][(pc = "target" /\ pc' = "wordlist") => hash_choice' = hash_choice]_vars

\* an accepted 32-character target that is no digest, detected as MD5 while
\* SHA-256 is selected
C8_Witness ==
    /\ pc = "wordlist"
    /\ hash_type = "MD5"
    /\ hash_choice = "3"
    /\ ~IsHex(target_hash)

\* C9: the target compared in the scan loop is in lower case, and when the
\* loop has ended a candidate whose digest is the lower-cased target has been
\* found.
C9_TargetLowerCased ==
    /\ pc \in {"scan", "report"} => target_hash = Lower(target_hash)
    /\ pc = "report" =>
          ((\E i \in NonBlankUpTo(Len(wordlist.lines)) :
               HexDigest(hash_choice, Trimmed(wordlist.lines[i])) = Lower(target_hash))
           => cracked_password # None)

\* C10: the words-per-second division never divides by zero.
C10_NoDivisionByZero == console # "ZeroDivisionError"

\* the candidate lines not yet consumed
Unread == { i \in NonBlankUpTo(Len(wordlist.lines)) : i > pos }

\* C11: progress reporting is a pure observer.  Whatever the reporting (rich
\* bar, plain, verbose or not), an iteration of the scan over a wordlist that
\* stays readable, if not interrupted, leaves the position, the attempt count and the password that the
\* loop without reporting leaves: at the end of the wordlist nothing changes
\* and the loop ends; otherwise the next candidate is consumed and counted,
\* and it becomes the password exactly when its digest is the target.
C11_ProgressIsObserver ==
    [][(pc = "scan" /\ wordlist.state = "ok" /\ wordlist'.state # "unreadable"
            /\ pc' # "interrupted") =>
          IF Unread = {}
          THEN (pc' = "report" /\ pos' = Len(wordlist.lines)
                  /\ attempt_count' = attempt_count
                  /\ cracked_password' = cracked_password)
          ELSE (\E m \in Unread :
                  (\A j \in Unread : m <= j)
                  /\ pos' = m
                  /\ attempt_count' = attempt_count + 1
                  /\ IF HexDigest(hash_choice, Trimmed(wordlist.lines[m])) = target_hash
                     THEN (pc' = "report"
                             /\ cracked_password' = Trimmed(wordlist.lines[m]))
                     ELSE (pc' = "scan"
                             /\ cracked_password' = cracked_password))]_vars

\* C12 as stated: between the start and the end of crack_password no line of
\* the wordlist is read more than once.
C12_ReadAtMostOnce == \A i \in 1..Len(reads) : reads[i] <= 1

\* C12 as amended: the scan reads the lines in file order and each at most
\* once; the only other read is the line count before the scan, which reads
\* every line once.  So a line the scan has consumed was read twice, a line
\* it has not consumed once, and none more often.
C12_ScanReadsOnce ==
    pc \in {"scan", "report"} =>
        /\ Len(reads) = Len(wordlist.lines)
        /\ \A i \in 1..Len(reads) : reads[i] = IF i <= pos THEN 2 ELSE 1

C12_Witness ==
    /\ pc = "report"
    /\ cracked_password # None
    /\ attempt_count = 2
    /\ pos < Len(wordlist.lines)
    /\ reads[1] = 2
    /\ reads[Len(reads)] = 1

\* C13: a wordlist that stops being readable after the line count, before or
\* during the scan, ends the run with the read error and exit status 1 (or
\* with the user's interrupt), never with the not-found report: the end of
\* the loop is only reached with a readable wordlist.
C13_SourceFailureIsAnError ==
    /\ [](pc = "report" => wordlist.state = "ok")
    /\ [][(pc = "scan" /\ wordlist.state # "ok") =>
            (\/ pc' = "exit1" /\ console' = "error_reading_wordlist"
             \/ pc' = "interrupted" /\ console' = "interrupted")]_vars

\* the read error has ended the process
C13_Witness ==
    /\ pc = "exit1"
    /\ console = "error_reading_wordlist"

\* C14: after the retry question a session starts only on the answer y: the
\* invalid-input message is followed by the retry question, not by main().
C14_InvalidAnswerAsksAgain ==
    [][(pc = "retry" /\ console' = "invalid_input") => pc' = "retry"]_vars

====
